---- MODULE Spec2Model ----
(***************************************************************************)
(* The Challenge Engine of GameUp: the ChallengeScreen component           *)
(* (src/components/Button.js, lines 35-906) with its two mini-games,       *)
(* Target Tapping and Color Reaction.                                      *)
(*                                                                         *)
(* The component is a React function component.  One step of the model is  *)
(* one event of the JavaScript event loop run to completion: the handler   *)
(* (a press handler, a timer callback, the continuation of an await), the  *)
(* re-render it causes, and the effects (useEffect) of that render.  A     *)
(* callback created in a render keeps the values of that render: every     *)
(* pending timer carries the values its closure captured.                  *)
(*                                                                         *)
(* Time is measured in milliseconds and advances in steps of TickMs, the   *)
(* greatest common divisor of the program's timer periods.  A timer whose  *)
(* remaining time is 0 fires before time advances again.                   *)
(***************************************************************************)
EXTENDS Integers, Sequences, FiniteSets, TLC

\* ---------------------------------------------------------------- constants
GAME_DURATION == 30
MIN_WAIT_TIME == 1000
MAX_WAIT_TIME == 4000
MAX_COLOR_ROUNDS == 10
COLOR_SCORE_XP_DIVISOR == 10
COUNTDOWN_MS == 1000
SPAWN_MS == 1500
TARGET_LIFE_MS == 3000
MISS_MS == 3000
DISPLAY_DELAY_MS == 1500
SCORE_CAP_MS == 1000
NULL == -1

\* ---------------------------------------------------------------- bounds
\* startGame is pressed at most MaxSessions times, and not while the network
\* still owes an answer to an end-of-game handler.
MaxSessions == 2
\* Besides starting, answering dialogs, resuming, reacting at once to the green
\* circle and pressing the red one, the user acts at most MaxInputs times:
\* presses a target, Pause, or Back during a game, reacts early or late, or
\* presses the green circle again.
MaxTargetInputs == 2
MaxColorInputs == 1
\* calculateReactionScore is called on its own with the latencies 0..MaxLatency.
MaxLatency == 1500

RECURSIVE GCD(_, _)
GCD(a, b) == IF b = 0 THEN a ELSE GCD(b, a % b)
TickMs == GCD(COUNTDOWN_MS, SPAWN_MS)

Min(a, b) == IF a < b THEN a ELSE b

\* ---------------------------------------------------------------- state
VARIABLES
    reactionTimeMs,     \* the argument of a call of calculateReactionScore, or NULL
    pointsEarned,       \* the value that call returned, or NULL
    challengeType,      \* route.params.type: "target" or "color"
    user,               \* firebase_auth.currentUser is non-null: the screen is
                        \* shown to a signed-in user only (App.js, line 94)
    mounted,            \* the screen is mounted (false after navigation.goBack())
    score,              \* useState: targets hit
    timeLeft,           \* useState: seconds left
    targets,            \* useState: array of the ids of the targets on screen
    circleColor,        \* useState: "red" or "green"
    roundsCompleted,    \* useState
    bestReactionTime,   \* useState: NULL or ms
    greenTime,          \* useState: NULL, or Date.now() - greenTime at the last tick
    isWaiting,          \* useState
    colorScore,         \* useState
    isPlaying,          \* useState
    isPaused,           \* useState
    gameStarted,        \* useState
    loading,            \* useState
    targetIdRef,        \* useRef: next target id
    roundInProgressRef, \* useRef
    timers,             \* the pending timers of the JS runtime, in creation order
    inflight,           \* end-of-game handlers suspended at an await
    alerts,             \* Alert dialogs on screen, by kind
    reports,            \* history: the calls of updateUserStats since the last start
    session,            \* history: number of startGame calls so far
    inputs,             \* history: number of optional user inputs so far
    justPaused,         \* history: pauseGame was the last event, but for opening
                        \* the dialog of handleBack
    ended,              \* history: why the session ended first, or "none"
    removed,            \* history: the ids that have left the targets array
    fading,             \* ids removed from the array since the last tick, whose
                        \* native view can still deliver a press
    db,                 \* Firestore: the documents users/<uid> and userStats/<uid>
    calls,              \* the calls of initializeUserProfile / updateUserStats made
                        \* so far, each with its position and its local constants
    now,                \* the clock new Date() reads, in ms
    prior               \* history: the userStats document before the first call

reactState == <<score, timeLeft, targets, circleColor, roundsCompleted,
                bestReactionTime, greenTime, isWaiting, colorScore,
                isPlaying, isPaused, gameStarted, loading>>
refs == <<targetIdRef, roundInProgressRef>>
service == <<db, calls, now, prior>>
vars == <<reactionTimeMs, pointsEarned, challengeType, user, mounted, reactState, refs, timers, inflight,
          alerts, reports, session, inputs, justPaused, ended, removed, fading, service>>

\* A pending timer.  kind: "countdown" (timerRef), "spawn" (targetSpawnTimerRef),
\* "expiry" (the untracked setTimeout of spawnTarget), "arm" (waitTimerRef),
\* "miss" (colorTimerRef), "next" / "end" (the untracked setTimeouts of
\* handleColorPress).  rem: ms until it fires.  ref: its handle is the one the
\* purpose's ref slot holds.  arg: the target id ("expiry") or newRoundCount
\* ("next").  run: ms the timer has been pending with the game running.
\* cap: the score / colorScore its closure captured.  sess: the session that
\* created it.
Timer(kind, rem, ref, arg, cap, sess) ==
    [kind |-> kind, rem |-> rem, ref |-> ref, arg |-> arg, run |-> 0,
     cap |-> cap, sess |-> sess]

AlertKinds == {"targetDone", "colorDone", "colorPlain", "error", "leave"}
NoAlert == \A k \in AlertKinds : alerts[k] = 0
Show(al, k) == [al EXCEPT ![k] = @ + 1]

\* clearIntervalRef / clearTimeoutRef: cancel the timer the slot holds.
clearTimeoutRef(tm, kind) == SelectSeq(tm, LAMBDA t : ~(t.kind = kind /\ t.ref))
clearIntervalRef(tm, kind) == clearTimeoutRef(tm, kind)
\* ref.current = setTimeout(...): the slot now holds the new timer only.
Assign(tm, t) ==
    Append([i \in DOMAIN tm |->
              IF tm[i].kind = t.kind THEN [tm[i] EXCEPT !.ref = FALSE] ELSE tm[i]], t)
RemoveAt(tm, i) == [j \in 1..(Len(tm) - 1) |-> IF j < i THEN tm[j] ELSE tm[j + 1]]

Ids(tg) == {tg[i] : i \in DOMAIN tg}
Without(tg, id) == SelectSeq(tg, LAMBDA x : x # id)

\* A state setter on an unmounted component changes nothing.
Set(new, old) == IF mounted THEN new ELSE old

\* ---------------------------------------------------------------- scoring
\* Faulty variant of calculateReactionScore: neither the cap nor Math.max.
scoreUncapped(ms) == (SCORE_CAP_MS - ms) \div 10
\* Faulty variant of calculateReactionScore: the points are one too low.
scoreOffByOne(ms) ==
    IF ms >= SCORE_CAP_MS THEN 0
    ELSE LET v == (SCORE_CAP_MS - ms) \div 10 - 1 IN IF v > 0 THEN v ELSE 0
\* Faulty variant of calculateReactionScore: Math.round for Math.floor.
scoreRounded(ms) ==
    IF ms >= SCORE_CAP_MS THEN 0
    ELSE LET v == (SCORE_CAP_MS - ms + 5) \div 10 IN IF v > 0 THEN v ELSE 0
\* Faulty variant of calculateReactionScore: Math.abs for the cap and Math.max.
scoreAbs(ms) ==
    LET v == (SCORE_CAP_MS - ms) \div 10 IN IF v > 0 THEN v ELSE 0 - v
calculateReactionScore(ms) ==
    IF ms >= SCORE_CAP_MS THEN 0
    ELSE LET v == (SCORE_CAP_MS - ms) \div 10 IN IF v > 0 THEN v ELSE 0

\* Random wait of startColorRound, Math.random() * (MAX - MIN) + MIN, on the tick grid.
ArmDelays == {MIN_WAIT_TIME, (MIN_WAIT_TIME + MAX_WAIT_TIME) \div 2}
\* Reaction times the user can produce; PromptMs is the usual one.
PromptMs == SCORE_CAP_MS \div 5
Latencies == {0, PromptMs, SCORE_CAP_MS}

\* ---------------------------------------------------------------- lifecycle
Running == isPlaying /\ ~isPaused
Paused == isPlaying /\ isPaused
Ended == ~isPlaying /\ session > 0
Idle == ~isPlaying /\ session = 0

\* The pending timers of a purpose, whatever render or session created them.
ArmPending == \E i \in DOMAIN timers : timers[i].kind = "arm"
MissPending == \E i \in DOMAIN timers : timers[i].kind = "miss"
Arms(tm) == Len(SelectSeq(tm, LAMBDA t : t.kind = "arm"))
\* The phases of a running Color round (startColorRound, lines 233-253): the
\* circle is red and waits for its arm timer; the circle is green and the
\* miss timer runs.
Waiting == challengeType = "color" /\ Running /\ circleColor = "red" /\ isWaiting
Armed == challengeType = "color" /\ Running /\ circleColor = "green" /\ MissPending

\* ---------------------------------------------------------------- documents
\* The fields of userStats/<uid> and users/<uid> the stats service reads and
\* writes (src/unnamed/part_002).  A document that does not exist has exists
\* FALSE.  lastChallengeDate is NULL or the ms of the ISO string stored:
\* toISOString and new Date(string) are exact to the millisecond.
StatsDoc(x, l, b, c, w, d) ==
    [exists |-> TRUE, totalXP |-> x, level |-> l, bestScore |-> b,
     challengesCompleted |-> c, weeklyXP |-> w, lastChallengeDate |-> d]
UserDoc(x, l, b, c, d) ==
    [exists |-> TRUE, totalXP |-> x, level |-> l, bestScore |-> b,
     challengesCompleted |-> c, lastChallengeDate |-> d]
\* What initializeUserProfile writes (lines 32-41 and 19-29).
InitialStats == StatsDoc(0, 1, 0, 0, 0, NULL)
InitialUser == UserDoc(0, 1, 0, 0, NULL)
NoStats == [InitialStats EXCEPT !.exists = FALSE]
NoUser == [InitialUser EXCEPT !.exists = FALSE]
\* No call of the stats service has been made.
ServiceIdle ==
    /\ db = [users |-> NoUser, userStats |-> NoStats]
    /\ calls = << >>
    /\ now = 0
    /\ prior = NoStats

\* ---------------------------------------------------------------- Init
\* The screen as it is mounted.
InitScreen ==
    /\ challengeType \in {"target", "color"}
    /\ user = TRUE
    /\ mounted = TRUE
    /\ score = 0
    /\ timeLeft = GAME_DURATION
    /\ targets = << >>
    /\ circleColor = "red"
    /\ roundsCompleted = 0
    /\ bestReactionTime = NULL
    /\ greenTime = NULL
    /\ isWaiting = FALSE
    /\ colorScore = 0
    /\ isPlaying = FALSE
    /\ isPaused = FALSE
    /\ gameStarted = FALSE
    /\ loading = FALSE
    /\ targetIdRef = 0
    /\ roundInProgressRef = FALSE
    /\ timers = << >>
    /\ inflight = << >>
    /\ alerts = [k \in AlertKinds |-> 0]
    /\ reports = << >>
    /\ session = 0
    /\ inputs = 0
    /\ justPaused = FALSE
    /\ ended = "none"
    /\ removed = {}
    /\ fading = {}

Init == InitScreen /\ ServiceIdle /\ reactionTimeMs = NULL /\ pointsEarned = NULL

\* ---------------------------------------------------------------- effects
\* spawnTarget (lines 201-224): a new id from the counter, the target appended
\* to the array, and an untracked 3000 ms timeout that removes that id.
spawnTimer(id, sess) == Timer("expiry", TARGET_LIFE_MS, FALSE, id, 0, sess)
\* Faulty variant of spawnTargets: every other id only is put on screen.
spawnEvenIds(tg, id) == IF id % 2 = 0 THEN Append(tg, id) ELSE tg
spawnTargets(tg, id) == Append(tg, id)
\* Faulty variant of spawnNextId: the counter is read but not advanced.
spawnSameId(id) == id
spawnNextId(id) == id + 1

\* The countdown effect (lines 144-164) of the render that ends this event.
CountdownEffect(tm) ==
    IF <<isPlaying, isPaused, timeLeft>> = <<isPlaying', isPaused', timeLeft'>>
    THEN tm
    ELSE LET cleaned == clearIntervalRef(tm, "countdown") IN
         IF challengeType = "target" /\ isPlaying' /\ ~isPaused' /\ timeLeft' > 0
         THEN Assign(cleaned, Timer("countdown", COUNTDOWN_MS, TRUE, 0, score', session'))
         ELSE cleaned

\* The spawn effect (lines 167-182): does it run the spawning branch?
SpawnEffectRuns ==
    /\ <<isPlaying, isPaused>> # <<isPlaying', isPaused'>>
    /\ challengeType = "target" /\ isPlaying' /\ ~isPaused'

SpawnEffect(tm) ==
    IF <<isPlaying, isPaused>> = <<isPlaying', isPaused'>>
    THEN tm
    ELSE LET cleaned == clearIntervalRef(tm, "spawn") IN
         IF SpawnEffectRuns
         THEN Assign(Append(cleaned, spawnTimer(targetIdRef, session')),
                     Timer("spawn", SPAWN_MS, TRUE, 0, 0, session'))
         ELSE cleaned

\* The color effect (lines 185-198).  Its cleanup is the one of the previous
\* render and tests that render's isPlaying and isPaused.
ColorDepsChanged ==
    <<isPlaying, isPaused, roundsCompleted>> # <<isPlaying', isPaused', roundsCompleted'>>
ColorCleanupClears == ColorDepsChanged /\ (~isPlaying \/ isPaused)
ColorCleanup(tm) ==
    IF ColorCleanupClears
    THEN clearTimeoutRef(clearTimeoutRef(tm, "arm"), "miss")
    ELSE tm
ColorEffectStarts(rip) ==
    /\ ColorDepsChanged
    /\ challengeType = "color" /\ isPlaying' /\ ~isPaused'
    /\ ~(IF ColorCleanupClears THEN FALSE ELSE rip)

\* startColorRound (lines 233-253): the arm timer, with a random delay d.
startColorRound(tm, d) ==
    Assign(tm, Timer("arm", d, TRUE, 0, colorScore', session'))

\* The render after an event and its effects.  tm, tg, cc, iw, rip are the timers,
\* targets, circleColor, isWaiting and roundInProgressRef the handler left.
RunEffects(tm, tg, cc, iw, rip) ==
    LET tm1 == ColorCleanup(SpawnEffect(CountdownEffect(tm))) IN
    /\ targets' = IF SpawnEffectRuns THEN spawnTargets(tg, targetIdRef) ELSE tg
    /\ targetIdRef' = IF SpawnEffectRuns THEN spawnNextId(targetIdRef) ELSE targetIdRef
    /\ IF ColorEffectStarts(rip)
       THEN /\ roundInProgressRef' = TRUE
            /\ isWaiting' = TRUE
            /\ circleColor' = "red"
            /\ \E d \in ArmDelays : timers' = startColorRound(tm1, d)
       ELSE /\ roundInProgressRef' = (IF ColorCleanupClears THEN FALSE ELSE rip)
            /\ isWaiting' = iw
            /\ circleColor' = cc
            /\ timers' = tm1

\* The component is unmounted (navigation.goBack()): the cleanups of the three
\* effects run, with the values of the last render, and the component's state
\* is discarded with it.  The timers that are left keep their closures.
Unmount(tm) ==
    LET tm1 == clearIntervalRef(clearIntervalRef(tm, "countdown"), "spawn") IN
    /\ mounted' = FALSE
    /\ timers' = IF ~isPlaying \/ isPaused
                 THEN clearTimeoutRef(clearTimeoutRef(tm1, "arm"), "miss") ELSE tm1
    /\ roundInProgressRef' = FALSE
    /\ score' = 0
    /\ timeLeft' = GAME_DURATION
    /\ targets' = << >>
    /\ circleColor' = "red"
    /\ roundsCompleted' = 0
    /\ bestReactionTime' = NULL
    /\ greenTime' = NULL
    /\ isWaiting' = FALSE
    /\ colorScore' = 0
    /\ isPlaying' = FALSE
    /\ isPaused' = FALSE
    /\ gameStarted' = FALSE
    /\ loading' = FALSE

\* ---------------------------------------------------------------- handlers
Report(h, sc, sess) ==
    [sess |-> sess, score |-> sc,
     reason |-> CASE h = "endGame" -> "TimeExpired"
                  [] h = "endColorGame" -> "RoundsCompleted"
                  [] h = "handleColorFail" -> "EarlyTap"
                  [] OTHER -> "Missed"]
Await(h, sc, sess) == [h |-> h, pc |-> "init", score |-> sc, sess |-> sess]

\* resetColorGame (lines 429-439), without gameStarted.
resetColorGame ==
    /\ roundsCompleted' = Set(0, roundsCompleted)
    /\ bestReactionTime' = Set(NULL, bestReactionTime)
    /\ greenTime' = Set(NULL, greenTime)
    /\ colorScore' = Set(0, colorScore)

\* The ids an event takes out of the targets array are removed for good.
Track == removed' = removed \cup (Ids(targets) \ Ids(targets'))

\* The session ends: the first reason is the one it ended for.
End(reason) == ended' = IF ended = "none" THEN reason ELSE ended

targetState == <<score, timeLeft>>
colorState == <<roundsCompleted, bestReactionTime, greenTime, colorScore>>
history == <<session, inputs>>
fixed == <<reactionTimeMs, pointsEarned, challengeType, user, service>>

\* Faulty variant of startGame: setScore(0) and setColorScore(0) are missing.
startKeepsScore ==
    /\ justPaused' = FALSE
    /\ ended' = "none"
    /\ UNCHANGED <<fixed, mounted, loading, inflight, alerts, inputs, fading>>
    /\ reports' = << >>
    /\ mounted /\ NoAlert /\ ~gameStarted /\ ~loading
    /\ session < MaxSessions /\ inflight = << >>
    /\ session' = session + 1
    /\ IF challengeType = "target"
       THEN /\ score' = score
            /\ timeLeft' = GAME_DURATION
            /\ UNCHANGED colorState
       ELSE /\ roundsCompleted' = 0
            /\ bestReactionTime' = NULL
            /\ greenTime' = NULL
            /\ colorScore' = colorScore
            /\ UNCHANGED targetState
    /\ isPlaying' = TRUE
    /\ isPaused' = FALSE
    /\ gameStarted' = TRUE
    /\ IF challengeType = "target"
       THEN RunEffects(timers, << >>, circleColor, isWaiting, roundInProgressRef)
       ELSE RunEffects(timers, targets, "red", FALSE, FALSE)
    /\ Track
\* startGame (lines 490-509), pressed on the start card.
startGame ==
    /\ justPaused' = FALSE
    /\ ended' = "none"
    /\ UNCHANGED <<fixed, mounted, loading, inflight, alerts, inputs, fading>>
    /\ reports' = << >>
    /\ mounted /\ NoAlert /\ ~gameStarted /\ ~loading
    /\ session < MaxSessions /\ inflight = << >>
    /\ session' = session + 1
    /\ IF challengeType = "target"
       THEN /\ score' = 0
            /\ timeLeft' = GAME_DURATION
            /\ UNCHANGED colorState
       ELSE /\ roundsCompleted' = 0
            /\ bestReactionTime' = NULL
            /\ greenTime' = NULL
            /\ colorScore' = 0
            /\ UNCHANGED targetState
    /\ isPlaying' = TRUE
    /\ isPaused' = FALSE
    /\ gameStarted' = TRUE
    /\ IF challengeType = "target"
       THEN RunEffects(timers, << >>, circleColor, isWaiting, roundInProgressRef)
       ELSE RunEffects(timers, targets, "red", FALSE, FALSE)
    /\ Track

\* The timers pauseGame (lines 511-517) leaves pending.
pauseTimers(tm) ==
    IF challengeType = "color"
    THEN clearTimeoutRef(clearTimeoutRef(tm, "arm"), "miss")
    ELSE tm

MaxInputs == IF challengeType = "target" THEN MaxTargetInputs ELSE MaxColorInputs

\* The optional inputs come in the first second (Target) or round (Color) of a
\* game; the presses of targets, the presses of the red circle, the late
\* answers to the green one and the missing ones also in the last one.
Early ==
    IF challengeType = "target" THEN timeLeft = GAME_DURATION ELSE roundsCompleted = 0
Late ==
    IF challengeType = "target" THEN timeLeft <= 1
    ELSE roundsCompleted >= MAX_COLOR_ROUNDS - 1
InWindow == Early \/ Late
\* The pause button is pressed in the first second (Target) or the first two
\* rounds (Color).
PauseWindow ==
    IF challengeType = "target" THEN Early ELSE roundsCompleted <= 1

pauseGame ==
    /\ justPaused' = TRUE
    /\ UNCHANGED <<fixed, ended, mounted, gameStarted, loading, inflight, alerts, reports,
                   session, fading>>
    /\ mounted /\ NoAlert /\ isPlaying /\ ~isPaused
    /\ inputs < MaxInputs /\ PauseWindow
    /\ inputs' = inputs + 1
    /\ isPaused' = TRUE
    /\ UNCHANGED <<isPlaying, targetState, colorState>>
    /\ RunEffects(pauseTimers(timers), targets, circleColor, isWaiting, roundInProgressRef)
    /\ Track

\* resumeGame (lines 519-521).
resumeGame ==
    /\ justPaused' = FALSE
    /\ UNCHANGED <<fixed, ended, mounted, gameStarted, loading, inflight, alerts, reports,
                   history, fading>>
    /\ mounted /\ NoAlert /\ isPlaying /\ isPaused
    /\ isPaused' = FALSE
    /\ UNCHANGED <<isPlaying, targetState, colorState>>
    /\ RunEffects(timers, targets, circleColor, isWaiting, roundInProgressRef)
    /\ Track

\* handleBack (lines 576-602): the Back button of the header.
handleBack ==
    /\ mounted /\ NoAlert
    /\ IF isPlaying
       THEN /\ inputs < MaxInputs /\ Early
            /\ inputs' = inputs + 1
            /\ alerts' = Show(alerts, "leave")
            /\ UNCHANGED <<mounted, reactState, timers, roundInProgressRef, justPaused>>
       ELSE /\ Unmount(timers)
            /\ justPaused' = FALSE
            /\ UNCHANGED <<alerts, inputs>>
    /\ UNCHANGED <<fixed, ended, targetIdRef, inflight, reports, session, fading>>
    /\ Track

\* The timers the Leave button of handleBack (lines 586-595) clears.
leaveTimers(tm) ==
    clearTimeoutRef(clearTimeoutRef(
        clearIntervalRef(clearIntervalRef(tm, "countdown"), "spawn"), "arm"), "miss")

\* "Leave" of the dialog of handleBack: the teardown of the screen.
leave ==
    /\ alerts["leave"] > 0
    /\ alerts' = [alerts EXCEPT !["leave"] = @ - 1]
    /\ IF mounted
       THEN Unmount(leaveTimers(timers))
       ELSE UNCHANGED <<mounted, reactState, timers, roundInProgressRef>>
    /\ justPaused' = FALSE
    /\ End("Left")
    /\ UNCHANGED <<fixed, targetIdRef, inflight, reports, history, fading>>
    /\ Track

\* "Cancel" of the dialog of handleBack.
cancelLeave ==
    /\ alerts["leave"] > 0
    /\ alerts' = [alerts EXCEPT !["leave"] = @ - 1]
    /\ justPaused' = FALSE
    /\ UNCHANGED <<fixed, ended, mounted, reactState, refs, timers, inflight, reports,
                   history, fading>>
    /\ Track

\* ---------------------------------------------------------------- time
Due(i, kind) == timers[i].kind = kind /\ timers[i].rem = 0

\* Between the first and the last round the user answers a circle that has just
\* turned green at once: no time passes before the press.
MustReact ==
    /\ challengeType = "color" /\ mounted /\ NoAlert /\ gameStarted
    /\ isPlaying /\ ~isPaused /\ ~InWindow
    /\ circleColor = "green" /\ greenTime = 0
    /\ \A i \in DOMAIN timers : timers[i].kind \notin {"next", "end"}

\* TickMs pass.  No timer is overdue; while the game runs, the pending expiry
\* timers accumulate running time.
Tick ==
    /\ \A i \in DOMAIN timers : timers[i].rem > 0
    /\ ~MustReact
    /\ timers # << >> \/ (greenTime # NULL /\ greenTime < SCORE_CAP_MS)
    /\ timers' = [i \in DOMAIN timers |->
                    [timers[i] EXCEPT !.rem = @ - TickMs,
                                      !.run = IF Running THEN @ + TickMs ELSE @]]
    /\ greenTime' = IF greenTime = NULL THEN NULL
                    ELSE Min(greenTime + TickMs, SCORE_CAP_MS)
    /\ fading' = {}
    /\ justPaused' = FALSE
    /\ UNCHANGED <<fixed, ended, mounted, score, timeLeft, targets, circleColor,
                   roundsCompleted, bestReactionTime, isWaiting, colorScore,
                   isPlaying, isPaused, gameStarted, loading, refs, inflight,
                   alerts, reports, history>>
    /\ Track

\* ---------------------------------------------------------------- target mode
\* The value the countdown callback's updater returns (lines 148-154).
\* Faulty variant of countdownNext: the updater takes 2 seconds off.
countdownByTwo(prev) == IF prev <= 2 THEN 0 ELSE prev - 2
countdownNext(prev) == IF prev <= 1 THEN 0 ELSE prev - 1
\* The timers endGame (lines 529-531) leaves pending.
endGameTimers(tm) == clearIntervalRef(clearIntervalRef(tm, "countdown"), "spawn")
\* Does endGame (line 540) call updateUserStats with this score?
\* Faulty variant of endGameSaves: the test of line 540 without score > 0.
endGameSavesAlways(sc) == challengeType = "target"
endGameSaves(sc) == challengeType = "target" /\ sc > 0

\* The countdown interval fires (lines 147-155); at prev <= 1 it calls the
\* endGame (lines 524-574) of the render that created the interval.
countdownTick(i) ==
    /\ justPaused' = FALSE
    /\ IF timeLeft <= 1 THEN End("TimeExpired") ELSE UNCHANGED ended
    /\ UNCHANGED <<fixed, mounted, alerts, reports, history, fading>>
    /\ Due(i, "countdown")
    /\ timeLeft' = countdownNext(timeLeft)
    /\ UNCHANGED <<score, colorState>>
    /\ IF timeLeft <= 1
       THEN /\ isPlaying' = FALSE
            /\ isPaused' = FALSE
            /\ IF user
               THEN /\ loading' = TRUE
                    /\ inflight' = Append(inflight,
                                          Await("endGame", timers[i].cap, timers[i].sess))
                    /\ UNCHANGED gameStarted
               ELSE /\ gameStarted' = FALSE
                    /\ UNCHANGED <<loading, inflight>>
            /\ RunEffects(endGameTimers(timers), << >>, circleColor, isWaiting,
                          roundInProgressRef)
       ELSE /\ UNCHANGED <<isPlaying, isPaused, loading, inflight, gameStarted>>
            /\ RunEffects([timers EXCEPT ![i].rem = COUNTDOWN_MS], targets,
                          circleColor, isWaiting, roundInProgressRef)
    /\ Track

\* The spawn interval fires (lines 171-173): spawnTarget.
spawnTick(i) ==
    /\ Due(i, "spawn")
    /\ targets' = spawnTargets(targets, targetIdRef)
    /\ targetIdRef' = spawnNextId(targetIdRef)
    /\ timers' = Append([timers EXCEPT ![i].rem = SPAWN_MS],
                        spawnTimer(targetIdRef, timers[i].sess))
    /\ justPaused' = FALSE
    /\ UNCHANGED <<fixed, ended, mounted, targetState, colorState, circleColor, isWaiting,
                   isPlaying, isPaused, gameStarted, loading, roundInProgressRef,
                   inflight, alerts, reports, history, fading>>
    /\ Track

\* The array the expiry callback (line 222) leaves.
\* Faulty variant of expire: the callback filters nothing out.
expireNone(tg, id) == tg
\* Faulty variant of expire: the callback removes the oldest target on screen,
\* whatever its id.
expireOldest(tg, id) == IF tg = << >> THEN tg ELSE Tail(tg)
expire(tg, id) == Without(tg, id)

\* The 3000 ms timeout of a target fires (lines 221-223).
targetExpiry(i) ==
    /\ Due(i, "expiry")
    /\ targets' = Set(expire(targets, timers[i].arg), targets)
    /\ timers' = RemoveAt(timers, i)
    /\ fading' = IF mounted /\ timers[i].arg \in Ids(targets)
                 THEN fading \cup {timers[i].arg} ELSE fading
    /\ justPaused' = FALSE
    /\ UNCHANGED <<fixed, ended, mounted, targetState, colorState, circleColor, isWaiting,
                   isPlaying, isPaused, gameStarted, loading, refs, inflight, alerts,
                   reports, history>>
    /\ Track

\* handleTargetPress (lines 227-230).
pressScore(prev) == prev + 1
\* Faulty variant of pressTargets: the press clears the array, as endGame does.
pressClears(tg, targetId) == << >>
pressTargets(tg, targetId) == Without(tg, targetId)

\* The target area is on screen (renderTargetChallenge, lines 604-661).
TargetAreaShown ==
    mounted /\ NoAlert /\ challengeType = "target" /\ gameStarted /\ ~isPaused

\* The user presses a target that is on screen.
handleTargetPress(targetId) ==
    /\ TargetAreaShown
    /\ targetId \in Ids(targets)
    /\ inputs < MaxInputs /\ InWindow
    /\ score' = pressScore(score)
    /\ targets' = pressTargets(targets, targetId)
    /\ fading' = fading \cup {targetId}
    /\ inputs' = inputs + 1
    /\ justPaused' = FALSE
    /\ UNCHANGED <<fixed, ended, mounted, timeLeft, colorState, circleColor, isWaiting,
                   isPlaying, isPaused, gameStarted, loading, refs, timers, inflight,
                   alerts, reports, session>>
    /\ Track

\* A press of a target whose view is still on screen although its id has left
\* the array (a second press, or a press racing with the expiry).
latePress(targetId) ==
    /\ TargetAreaShown
    /\ targetId \in fading
    /\ targetId \notin Ids(targets)
    /\ inputs < MaxInputs /\ InWindow
    /\ score' = pressScore(score)
    /\ targets' = pressTargets(targets, targetId)
    /\ inputs' = inputs + 1
    /\ justPaused' = FALSE
    /\ UNCHANGED <<fixed, ended, mounted, timeLeft, colorState, circleColor, isWaiting,
                   isPlaying, isPaused, gameStarted, loading, refs, timers, inflight,
                   alerts, reports, session, fading>>
    /\ Track

\* ---------------------------------------------------------------- color mode
\* The arm timer fires (lines 243-252): the circle turns green and the miss
\* timer is armed; its handleColorMiss is the one of the arm timer's render.
armTimers(tm, i) ==
    Assign(RemoveAt(tm, i), Timer("miss", MISS_MS, TRUE, 0, tm[i].cap, tm[i].sess))

armFires(i) ==
    /\ Due(i, "arm")
    /\ circleColor' = Set("green", circleColor)
    /\ greenTime' = Set(0, greenTime)
    /\ isWaiting' = Set(FALSE, isWaiting)
    /\ timers' = armTimers(timers, i)
    /\ justPaused' = FALSE
    /\ UNCHANGED <<fixed, ended, mounted, targetState, targets, roundsCompleted,
                   bestReactionTime, colorScore, isPlaying, isPaused, gameStarted,
                   loading, refs, inflight, alerts, reports, history, fading>>
    /\ Track

\* The part of handleColorFail (lines 296-361) and handleColorMiss (lines 363-427)
\* after the timers are cleared: the score is saved only if it is positive and a
\* user is signed in.  cs is the colorScore of the handler's render.
\* Faulty variant of failEnds: setIsPlaying(false) is missing.
failKeepsPlaying(h, cs, sess) ==
    /\ isPlaying' = isPlaying
    /\ gameStarted' = Set(FALSE, gameStarted)
    /\ IF cs > 0 /\ user
       THEN /\ loading' = Set(TRUE, loading)
            /\ inflight' = Append(inflight, Await(h, cs \div COLOR_SCORE_XP_DIVISOR, sess))
            /\ UNCHANGED alerts
       ELSE /\ alerts' = Show(alerts, "colorPlain")
            /\ UNCHANGED <<loading, inflight>>
failEnds(h, cs, sess) ==
    /\ isPlaying' = Set(FALSE, isPlaying)
    /\ gameStarted' = Set(FALSE, gameStarted)
    /\ IF cs > 0 /\ user
       THEN /\ loading' = Set(TRUE, loading)
            /\ inflight' = Append(inflight, Await(h, cs \div COLOR_SCORE_XP_DIVISOR, sess))
            /\ UNCHANGED alerts
       ELSE /\ alerts' = Show(alerts, "colorPlain")
            /\ UNCHANGED <<loading, inflight>>

\* The timers handleColorMiss (line 366) and handleColorFail (lines 299-300) leave.
missTimers(tm) == clearTimeoutRef(tm, "arm")
failTimers(tm) == clearTimeoutRef(clearTimeoutRef(tm, "arm"), "miss")

\* The miss timer fires (lines 249-251): handleColorMiss.
missFires(i) ==
    /\ justPaused' = FALSE
    /\ End("Missed")
    /\ UNCHANGED <<fixed, mounted, reports, history, fading>>
    /\ Due(i, "miss")
    /\ failEnds("handleColorMiss", timers[i].cap, timers[i].sess)
    /\ UNCHANGED <<isPaused, targetState, colorState>>
    /\ RunEffects(missTimers(RemoveAt(timers, i)), targets, circleColor, isWaiting, FALSE)
    /\ Track

\* The circle is on screen (renderColorChallenge, lines 663-715).
ColorAreaShown ==
    mounted /\ NoAlert /\ challengeType = "color" /\ gameStarted /\ ~isPaused

\* handleColorPress (lines 256-294) with the circle red: handleColorFail.
earlyPress ==
    /\ justPaused' = FALSE
    /\ End("EarlyTap")
    /\ UNCHANGED <<fixed, mounted, reports, history, fading>>
    /\ ColorAreaShown
    /\ circleColor = "red"
    /\ InWindow
    /\ failEnds("handleColorFail", colorScore, session)
    /\ UNCHANGED <<isPaused, targetState, colorState>>
    /\ RunEffects(failTimers(timers), targets, circleColor, isWaiting, FALSE)
    /\ Track

\* The reaction times Date.now() - greenTime can give, g ms after the last tick
\* boundary at which the circle was green.
Reactions(g) ==
    {l \in Latencies : IF g >= SCORE_CAP_MS THEN l >= g ELSE g <= l /\ l < g + TickMs}

\* Lines 270-273: the best reaction time after a reaction.
bestAfter(best, reaction) ==
    IF best = NULL \/ best = 0 \/ reaction < best THEN reaction ELSE best

\* Lines 278-292: the untracked timeout a scored press schedules.
\* Faulty variant of delayTimer: the round limit is tested with > for >=.
delayLate(rounds, cs, sess) ==
    IF rounds + 1 > MAX_COLOR_ROUNDS
    THEN Timer("end", DISPLAY_DELAY_MS, FALSE, 0, cs, sess)
    ELSE Timer("next", DISPLAY_DELAY_MS, FALSE, rounds + 1, cs, sess)
delayTimer(rounds, cs, sess) ==
    IF rounds + 1 >= MAX_COLOR_ROUNDS
    THEN Timer("end", DISPLAY_DELAY_MS, FALSE, 0, cs, sess)
    ELSE Timer("next", DISPLAY_DELAY_MS, FALSE, rounds + 1, cs, sess)

Delays(tm) == Len(SelectSeq(tm, LAMBDA t : t.kind \in {"next", "end"}))

\* handleColorPress with the circle green.
\* The press is the user's first answer to this green circle, made at once.
Prompt(reaction) == reaction = PromptMs /\ isPlaying /\ Delays(timers) = 0

scoredPress(reaction) ==
    /\ justPaused' = FALSE
    /\ UNCHANGED <<fixed, ended, mounted, gameStarted, loading, inflight, alerts, reports,
                   session, fading>>
    /\ ColorAreaShown
    /\ circleColor = "green" /\ greenTime # NULL
    /\ reaction \in Reactions(greenTime)
    /\ IF Prompt(reaction)
       THEN inputs' = inputs
       ELSE inputs < MaxInputs /\ InWindow /\ inputs' = inputs + 1
    /\ colorScore' = colorScore + calculateReactionScore(reaction)
    /\ bestReactionTime' = bestAfter(bestReactionTime, reaction)
    /\ UNCHANGED <<isPlaying, isPaused, targetState, roundsCompleted, greenTime>>
    /\ RunEffects(Append(clearTimeoutRef(timers, "miss"),
                         delayTimer(roundsCompleted, colorScore, session)),
                  targets, circleColor, isWaiting, roundInProgressRef)
    /\ Track

\* The next-round timeout fires (lines 287-291).
nextRound(i) ==
    /\ justPaused' = FALSE
    /\ UNCHANGED <<fixed, ended, mounted, gameStarted, loading, inflight, alerts, reports,
                   history, fading>>
    /\ Due(i, "next")
    /\ roundsCompleted' = Set(timers[i].arg, roundsCompleted)
    /\ UNCHANGED <<isPlaying, isPaused, targetState, bestReactionTime, greenTime,
                   colorScore>>
    /\ RunEffects(RemoveAt(timers, i), targets, circleColor, isWaiting, FALSE)
    /\ Track

\* Does endColorGame (line 450) save this colorScore?
endColorSaves(cs) == user /\ cs > 0

\* The end-of-game timeout fires (lines 282-284): the endColorGame (lines 442-488)
\* of the render of the press that scheduled it.
endColorGame(i) ==
    /\ justPaused' = FALSE
    /\ End("RoundsCompleted")
    /\ UNCHANGED <<fixed, mounted, alerts, reports, history, fading>>
    /\ Due(i, "end")
    /\ isPlaying' = Set(FALSE, isPlaying)
    /\ isPaused' = Set(FALSE, isPaused)
    /\ UNCHANGED targetState
    /\ IF endColorSaves(timers[i].cap)
       THEN /\ loading' = Set(TRUE, loading)
            /\ inflight' = Append(inflight,
                                  Await("endColorGame",
                                        timers[i].cap \div COLOR_SCORE_XP_DIVISOR,
                                        timers[i].sess))
            /\ UNCHANGED <<colorState, gameStarted>>
            /\ RunEffects(failTimers(RemoveAt(timers, i)), targets, circleColor,
                          isWaiting, FALSE)
       ELSE /\ resetColorGame
            /\ gameStarted' = Set(FALSE, gameStarted)
            /\ UNCHANGED <<loading, inflight>>
            /\ RunEffects(failTimers(RemoveAt(timers, i)), targets,
                          Set("red", circleColor), Set(FALSE, isWaiting), FALSE)
    /\ Track

\* ---------------------------------------------------------------- result reporter
\* await initializeUserProfile(...) of an end-of-game handler returns (ok) or
\* throws.  On return the handler calls updateUserStats, except endGame with a
\* score that is not positive (line 540).
initReturns(k, ok) ==
    /\ k \in DOMAIN inflight
    /\ inflight[k].pc = "init"
    /\ LET r == inflight[k]
           saves == r.h # "endGame" \/ endGameSaves(r.score) IN
       /\ IF ok /\ saves
          THEN /\ reports' = Append(reports, Report(r.h, r.score, r.sess))
               /\ inflight' = [inflight EXCEPT ![k].pc = "update"]
               /\ UNCHANGED <<alerts, gameStarted, loading>>
          ELSE /\ inflight' = RemoveAt(inflight, k)
               /\ loading' = Set(FALSE, loading)
               /\ gameStarted' = IF ok THEN Set(FALSE, gameStarted) ELSE gameStarted
               /\ alerts' = IF ok THEN alerts ELSE Show(alerts, "error")
               /\ UNCHANGED reports
    /\ justPaused' = FALSE
    /\ UNCHANGED <<fixed, ended, mounted, targetState, targets, colorState, circleColor,
                   isWaiting, isPlaying, isPaused, refs, timers, history, fading>>
    /\ Track

\* await updateUserStats(...) returns (ok) or throws: the result dialog, or the
\* error dialog (lines 567-570, 327-330, 393-396, 480-483).
\* Faulty variant of updateReturns: the catch block shows no dialog.
updateSwallows(k, ok) ==
    /\ k \in DOMAIN inflight
    /\ inflight[k].pc = "update"
    /\ inflight' = RemoveAt(inflight, k)
    /\ alerts' = IF ~ok THEN alerts
                 ELSE Show(alerts, IF inflight[k].h = "endGame" THEN "targetDone"
                                   ELSE "colorDone")
    /\ loading' = IF ok THEN loading ELSE Set(FALSE, loading)
    /\ justPaused' = FALSE
    /\ UNCHANGED <<fixed, ended, mounted, targetState, targets, colorState, circleColor,
                   isWaiting, isPlaying, isPaused, gameStarted, refs, timers, reports,
                   history, fading>>
    /\ Track
updateReturns(k, ok) ==
    /\ k \in DOMAIN inflight
    /\ inflight[k].pc = "update"
    /\ inflight' = RemoveAt(inflight, k)
    /\ alerts' = Show(alerts, IF ~ok THEN "error"
                              ELSE IF inflight[k].h = "endGame" THEN "targetDone"
                              ELSE "colorDone")
    /\ loading' = IF ok THEN loading ELSE Set(FALSE, loading)
    /\ justPaused' = FALSE
    /\ UNCHANGED <<fixed, ended, mounted, targetState, targets, colorState, circleColor,
                   isWaiting, isPlaying, isPaused, gameStarted, refs, timers, reports,
                   history, fading>>
    /\ Track

\* A button of a result dialog.  back: "Back to Home" (navigation.goBack());
\* otherwise "Play Again" / "Try Again" / "OK".
dismiss(kind, back) ==
    /\ justPaused' = FALSE
    /\ UNCHANGED <<fixed, ended, inflight, reports, history, fading>>
    /\ kind \in AlertKinds \ {"leave"}
    /\ alerts[kind] > 0
    /\ alerts' = [alerts EXCEPT ![kind] = @ - 1]
    /\ IF back /\ kind # "error"
       THEN /\ IF mounted THEN Unmount(timers)
                          ELSE UNCHANGED <<mounted, reactState, timers, roundInProgressRef>>
            /\ UNCHANGED targetIdRef
       ELSE /\ UNCHANGED <<mounted, isPlaying, isPaused, targetState>>
            /\ loading' = IF kind \in {"targetDone", "colorDone"}
                          THEN Set(FALSE, loading) ELSE loading
            /\ gameStarted' = IF kind = "error" THEN gameStarted
                              ELSE Set(FALSE, gameStarted)
            /\ IF kind \in {"colorDone", "colorPlain"}
               THEN /\ resetColorGame
                    /\ RunEffects(timers, targets, Set("red", circleColor),
                                  Set(FALSE, isWaiting), Set(FALSE, roundInProgressRef))
               ELSE /\ UNCHANGED colorState
                    /\ RunEffects(timers, targets, circleColor, isWaiting,
                                  roundInProgressRef)
    /\ Track

\* ---------------------------------------------------------------- specification
Common ==
    \/ startGame
    \/ pauseGame
    \/ resumeGame
    \/ handleBack
    \/ leave
    \/ cancelLeave
    \/ Tick
    \/ \E k \in DOMAIN inflight, ok \in BOOLEAN : initReturns(k, ok)
    \/ \E k \in DOMAIN inflight, ok \in BOOLEAN : updateReturns(k, ok)
    \/ \E kind \in AlertKinds, back \in BOOLEAN : dismiss(kind, back)

TargetNext ==
    \/ \E i \in DOMAIN timers : countdownTick(i)
    \/ \E i \in DOMAIN timers : spawnTick(i)
    \/ \E i \in DOMAIN timers : targetExpiry(i)
    \/ \E id \in Ids(targets) : handleTargetPress(id)
    \/ \E id \in fading : latePress(id)

ColorNext ==
    \/ \E i \in DOMAIN timers : armFires(i)
    \/ \E i \in DOMAIN timers : missFires(i)
    \/ earlyPress
    \/ \E l \in Latencies : scoredPress(l)
    \/ \E i \in DOMAIN timers : nextRound(i)
    \/ \E i \in DOMAIN timers : endColorGame(i)

Next == Common \/ TargetNext \/ ColorNext
Spec == Init /\ [][Next]_vars

InitTarget == Init /\ challengeType = "target"
NextTarget == Common \/ TargetNext
SpecTarget == InitTarget /\ [][NextTarget]_vars

\* Target mode with its scheduling: time passes, a timer that is due fires, a
\* paused game is resumed in the end and an open Leave dialog is answered.
Resumes == resumeGame \/ leave \/ cancelLeave
SpecTargetLive ==
    /\ SpecTarget
    /\ WF_vars(Tick)
    /\ WF_vars(\E i \in DOMAIN timers : countdownTick(i))
    /\ WF_vars(\E i \in DOMAIN timers : spawnTick(i))
    /\ WF_vars(\E i \in DOMAIN timers : targetExpiry(i))
    /\ WF_vars(Resumes)

InitColor == Init /\ challengeType = "color"
NextColor == Common \/ ColorNext
SpecColor == InitColor /\ [][NextColor]_vars

\* The Color sessions in which the first green circle was answered at once and
\* the game was paused and resumed within the display delay of that tap: the
\* state SpecColor reaches by startGame, armFires, scoredPress(PromptMs),
\* pauseGame, Tick (k times, k < 3) and resumeGame, with the optional inputs
\* counted from there.  The resumed round has drawn the arm delay d.
InitResumed ==
    /\ reactionTimeMs = NULL
    /\ pointsEarned = NULL
    /\ challengeType = "color"
    /\ user = TRUE
    /\ mounted = TRUE
    /\ score = 0
    /\ timeLeft = GAME_DURATION
    /\ targets = << >>
    /\ circleColor = "red"
    /\ roundsCompleted = 0
    /\ bestReactionTime = PromptMs
    /\ greenTime \in {k * TickMs : k \in 0..2}
    /\ isWaiting = TRUE
    /\ colorScore = calculateReactionScore(PromptMs)
    /\ isPlaying = TRUE
    /\ isPaused = FALSE
    /\ gameStarted = TRUE
    /\ loading = FALSE
    /\ targetIdRef = 0
    /\ roundInProgressRef = TRUE
    /\ timers \in {<<Timer("next", DISPLAY_DELAY_MS - greenTime, FALSE, 1, 0, 1),
                      Timer("arm", d, TRUE, 0, colorScore, 1)>> : d \in ArmDelays}
    /\ inflight = << >>
    /\ alerts = [k \in AlertKinds |-> 0]
    /\ reports = << >>
    /\ session = 1
    /\ inputs = 0
    /\ justPaused = FALSE
    /\ ended = "none"
    /\ removed = {}
    /\ fading = {}
    /\ ServiceIdle
SpecResumed == InitResumed /\ [][NextColor]_vars

\* calculateReactionScore on its own: one call, with a latency of 0..MaxLatency.
InitScore ==
    /\ InitScreen /\ ServiceIdle /\ challengeType = "color"
    /\ reactionTimeMs \in 0..MaxLatency
    /\ pointsEarned = NULL
Score ==
    /\ pointsEarned = NULL
    /\ pointsEarned' = calculateReactionScore(reactionTimeMs)
    /\ UNCHANGED <<reactionTimeMs, challengeType, user, mounted, reactState, refs,
                   timers, inflight, alerts, reports, session, inputs, justPaused,
                   ended, removed, fading, service>>
SpecScore == InitScore /\ [][Score]_vars

\* ---------------------------------------------------------------- stats service
\* src/unnamed/part_002: initializeUserProfile (lines 11-47) and updateUserStats
\* (lines 100-178) for one user.  Each await is a step; it returns (ok) or throws.
XP_PER_SCORE_POINT == 10
XP_PER_LEVEL == 1000
MS_PER_DAY == 1000 * 60 * 60 * 24
\* The calls made in one behaviour: one after the other, and overlapping.
MaxCalls == 2
MaxOverlap == 3
\* The scores submitted, and the instants at which the clock is read: exactly
\* 7 days, 7 days and 1 ms, and more than 8 days after an earlier instant.
Scores == {0, 40, 70}
Instants == {0, MS_PER_DAY, 7 * MS_PER_DAY, 7 * MS_PER_DAY + 1, 15 * MS_PER_DAY + 1}
\* The userStats documents found before the first call: none, the one
\* initializeUserProfile creates, and two that earlier challenges left.
PriorStats ==
    {NoStats, InitialStats,
     StatsDoc(900, 1, 50, 2, 300, 0),
     StatsDoc(2400, 3, 70, 5, 0, MS_PER_DAY)}
UserOf(st) ==
    IF st.exists
    THEN UserDoc(st.totalXP, st.level, st.bestScore, st.challengesCompleted,
                 st.lastChallengeDate)
    ELSE NoUser

Max(a, b) == IF a >= b THEN a ELSE b
\* Line 106.
xpGained(sc) == sc * XP_PER_SCORE_POINT
\* Line 121.
levelOf(totalXP) == (totalXP \div XP_PER_LEVEL) + 1
\* Lines 128-140: the new weeklyXP at instant t.  (t - last) / MS_PER_DAY > 7
\* is t - last > 7 * MS_PER_DAY; with no last date the days count as 8.
\* Faulty variant of newWeeklyXP: the week is over at exactly 7 days.
weeklyResetsAtSeven(cur, xp, t) ==
    IF cur.lastChallengeDate = NULL \/ t - cur.lastChallengeDate >= 7 * MS_PER_DAY
    THEN xp ELSE cur.weeklyXP + xp
newWeeklyXP(cur, xp, t) ==
    IF cur.lastChallengeDate = NULL \/ t - cur.lastChallengeDate > 7 * MS_PER_DAY
    THEN xp ELSE cur.weeklyXP + xp
\* Lines 119-140 and 143-151: the document updateUserStats computes from the
\* stats it read.
\* Faulty variant of newStats: bestScore is overwritten by the last score.
newStatsLastScore(cur, sc, t) ==
    StatsDoc(cur.totalXP + xpGained(sc), levelOf(cur.totalXP + xpGained(sc)),
             sc, cur.challengesCompleted + 1,
             newWeeklyXP(cur, xpGained(sc), t), t)
newStats(cur, sc, t) ==
    StatsDoc(cur.totalXP + xpGained(sc), levelOf(cur.totalXP + xpGained(sc)),
             Max(cur.bestScore, sc), cur.challengesCompleted + 1,
             newWeeklyXP(cur, xpGained(sc), t), t)
\* Line 110: the stats read, or the defaults if the document does not exist.
currentStats == IF db.userStats.exists THEN db.userStats ELSE InitialStats

\* A call.  cur: the stats updateUserStats read;  new: the stats it computed.
Call(op, pc, sc) == [op |-> op, pc |-> pc, score |-> sc, cur |-> NoStats, new |-> NoStats]
At(c, op, pc) == c \in DOMAIN calls /\ calls[c].op = op /\ calls[c].pc = pc
Goto(c, pc) == calls' = [calls EXCEPT ![c].pc = pc]
Finished(c) == calls[c].pc \in {"done", "failed"}

screen == <<reactionTimeMs, pointsEarned, challengeType, user, mounted, reactState, refs,
            timers, inflight, alerts, reports, session, inputs, justPaused, ended,
            removed, fading>>

\* initializeUserProfile(userId, email) is called.
callInit ==
    /\ calls' = Append(calls, Call("init", "getUser", 0))
    /\ UNCHANGED <<screen, db, now, prior>>

\* Line 14: await getDoc(userRef); line 17: create only if it does not exist.
initGetUser(c, ok) ==
    /\ At(c, "init", "getUser")
    /\ Goto(c, IF ~ok THEN "failed" ELSE IF db.users.exists THEN "done" ELSE "setUser")
    /\ UNCHANGED <<screen, db, now, prior>>

\* Lines 19-29: await setDoc(userRef, ...).
initSetUser(c, ok) ==
    /\ At(c, "init", "setUser")
    /\ Goto(c, IF ok THEN "setStats" ELSE "failed")
    /\ db' = IF ok THEN [db EXCEPT !.users = InitialUser] ELSE db
    /\ UNCHANGED <<screen, now, prior>>

\* Lines 32-41: await setDoc(doc(db, 'userStats', userId), ...).
initSetStats(c, ok) ==
    /\ At(c, "init", "setStats")
    /\ Goto(c, IF ok THEN "done" ELSE "failed")
    /\ db' = IF ok THEN [db EXCEPT !.userStats = InitialStats] ELSE db
    /\ UNCHANGED <<screen, now, prior>>

\* updateUserStats(userId, score) is called.
callUpdate(sc) ==
    /\ calls' = Append(calls, Call("update", "getStats", sc))
    /\ UNCHANGED <<screen, db, now, prior>>

\* Line 109: await getDoc(statsRef); lines 110-140 run when it returns.
updateGetStats(c, ok) ==
    /\ At(c, "update", "getStats")
    /\ calls' = IF ok
                THEN [calls EXCEPT ![c].pc = "updateStats",
                                   ![c].cur = currentStats,
                                   ![c].new = newStats(currentStats, calls[c].score, now)]
                ELSE [calls EXCEPT ![c].pc = "failed"]
    /\ UNCHANGED <<screen, db, now, prior>>

\* Lines 143-151: await updateDoc(statsRef, ...).  updateDoc fails if the
\* document does not exist.
updateStatsDoc(c, ok) ==
    /\ At(c, "update", "updateStats")
    /\ IF ok /\ db.userStats.exists
       THEN /\ db' = [db EXCEPT !.userStats = calls[c].new]
            /\ Goto(c, "updateUser")
       ELSE /\ db' = db
            /\ Goto(c, "failed")
    /\ UNCHANGED <<screen, now, prior>>

\* Lines 154-160: await updateDoc(userRef, ...); lines 163-173: the result.
updateUserDoc(c, ok) ==
    /\ At(c, "update", "updateUser")
    /\ IF ok /\ db.users.exists
       THEN /\ db' = [db EXCEPT !.users = UserOf(calls[c].new)]
            /\ Goto(c, "done")
       ELSE /\ db' = db
            /\ Goto(c, "failed")
    /\ UNCHANGED <<screen, now, prior>>

\* Time passes.
advance(t) ==
    /\ t \in Instants /\ t > now
    /\ now' = t
    /\ UNCHANGED <<screen, db, calls, prior>>

Awaits ==
    \/ \E c \in DOMAIN calls, ok \in BOOLEAN : initGetUser(c, ok)
    \/ \E c \in DOMAIN calls, ok \in BOOLEAN : initSetUser(c, ok)
    \/ \E c \in DOMAIN calls, ok \in BOOLEAN : initSetStats(c, ok)
    \/ \E c \in DOMAIN calls, ok \in BOOLEAN : updateGetStats(c, ok)
    \/ \E c \in DOMAIN calls, ok \in BOOLEAN : updateStatsDoc(c, ok)
    \/ \E c \in DOMAIN calls, ok \in BOOLEAN : updateUserDoc(c, ok)

\* The service for a user whose documents are in any of the prior states: both
\* exist, or neither.
InitStats ==
    /\ InitScreen /\ challengeType = "target"
    /\ reactionTimeMs = NULL /\ pointsEarned = NULL
    /\ prior \in PriorStats
    /\ db = [users |-> UserOf(prior), userStats |-> prior]
    /\ calls = << >>
    /\ now = 0

\* Calls that overlap in any way, within one instant.
NextStats ==
    \/ Len(calls) < MaxOverlap /\ callInit
    \/ Len(calls) < MaxOverlap /\ \E sc \in Scores : callUpdate(sc)
    \/ Awaits
SpecStats == InitStats /\ [][NextStats]_vars

\* Sequential calls: a call is made when the calls before it have returned.
Sequential == \A c \in DOMAIN calls : Finished(c)
NextSequential ==
    \/ Sequential /\ Len(calls) < MaxCalls /\ callInit
    \/ Sequential /\ Len(calls) < MaxCalls /\ \E sc \in Scores : callUpdate(sc)
    \/ Awaits
    \/ \E t \in Instants : advance(t)
SpecSequential == InitStats /\ [][NextSequential]_vars

TypeOK ==
    /\ challengeType \in {"target", "color"}
    /\ score \in 0..MaxTargetInputs
    /\ timeLeft \in 0..GAME_DURATION
    /\ circleColor \in {"red", "green"}
    /\ roundsCompleted \in Nat
    /\ greenTime \in {NULL} \cup 0..SCORE_CAP_MS
    /\ \A i \in DOMAIN timers : timers[i].rem >= 0

\* ---------------------------------------------------------------- properties
\* C1: the Result Reporter (updateUserStats) is called at most once for a
\* session, whatever the taps, timer firings, pauses and resumes: no two calls
\* since the last start belong to the same session.
C1_ReportedOncePerSession ==
    \A i, j \in DOMAIN reports : reports[i].sess = reports[j].sess => i = j

\* Two presses of the green circle in the last round: endColorGame has run twice
\* and each run has called updateUserStats for the same session.
C1_DoubleEnd ==
    \E i, j \in DOMAIN reports :
        /\ i # j /\ reports[i].sess = reports[j].sess
        /\ reports[i].reason = "RoundsCompleted" /\ reports[j].reason = "RoundsCompleted"

\* C2: when pauseGame is followed at once by the teardown of the screen (Back,
\* Leave), no timer the session created is pending afterwards.
C2_PauseThenTeardownLeavesNoTimer ==
    [][(justPaused /\ mounted /\ ~mounted') =>
          \A i \in DOMAIN timers' : timers'[i].sess # session]_vars

\* C3: while the session is Paused or Ended, no timer the session created is
\* pending.
C3_NoTimerWhenPausedOrEnded ==
    (mounted /\ (Paused \/ Ended)) =>
        \A i \in DOMAIN timers : timers[i].sess # session

\* C4: a press of a target that is in the array while the game is Running adds
\* exactly 1 to score and takes exactly that target out of the array; the other
\* targets stay, in their order.
C4_PressHitsOne ==
    [][\A id \in Ids(targets) :
          (Running /\ handleTargetPress(id)) =>
              /\ score' = score + 1
              /\ targets' = SelectSeq(targets, LAMBDA x : x # id)
              /\ Len(targets') = Len(targets) - 1]_vars

\* A press has hit one of several targets of a running game: its expiry timer
\* is still pending, the others are still in the array.
C4_Witness ==
    /\ Running /\ score = 1 /\ inputs = 1 /\ targets # << >>
    /\ \E i \in DOMAIN timers :
          /\ timers[i].kind = "expiry"
          /\ timers[i].arg \in fading
          /\ timers[i].arg \notin Ids(targets)

\* C5: a press that names a target id no longer in the array (already hit, or
\* already expired) changes neither score nor the array.
C5_LatePressIsNoOp ==
    [][\A id \in fading :
          (id \notin Ids(targets) /\ latePress(id)) =>
              (score' = score /\ targets' = targets)]_vars

\* C6: when the 3000 ms timer of a target that was not pressed fires, the target
\* leaves the array and score does not change; an id that has left the array is
\* never in it again.
C6_ExpiryRemovesForGood ==
    [][/\ \A i \in DOMAIN timers :
             (mounted /\ timers[i].arg \in Ids(targets) /\ targetExpiry(i)) =>
                 /\ timers[i].arg \notin Ids(targets')
                 /\ timers[i].arg \in removed'
                 /\ score' = score
       /\ Ids(targets') \cap removed' = {}]_vars

\* A target nobody pressed has just expired while later targets are on screen.
C6_Witness ==
    /\ mounted /\ score = 0 /\ inputs = 0 /\ targets # << >>
    /\ fading \cap removed # {}

\* C7: target ids come from a counter that never decreases, across restarted
\* sessions too: an id that enters the array is the counter's value, which then
\* moves past it, every id created so far is below the counter, and the array
\* never holds an id twice.
C7_FreshIds ==
    [][/\ targetIdRef' >= targetIdRef
       /\ \A id \in Ids(targets') \ Ids(targets) :
             id >= targetIdRef /\ id < targetIdRef' /\ id \notin removed
       /\ \A id \in Ids(targets') \cup removed' : id < targetIdRef'
       /\ \A i \in DOMAIN timers' :
             timers'[i].kind = "expiry" => timers'[i].arg < targetIdRef'
       /\ \A i, j \in DOMAIN targets' : targets'[i] = targets'[j] => i = j]_vars

\* A restarted session has several targets on screen, after others have left.
C7_Witness ==
    session > 1 /\ Len(targets) >= 2 /\ removed # {}

\* C8: pausing suspends the expiry timers: a target in the array expires only
\* when the time it has spent with the game Running reaches 3000 ms.
C8_ExpiryCountsRunningTime ==
    [][\A i \in DOMAIN timers :
          (mounted /\ timers[i].arg \in Ids(targets) /\ targetExpiry(i)) =>
              timers[i].run >= TARGET_LIFE_MS]_vars

C10_EarlyTapIsFinal ==
    [][/\ (ended = "none" /\ earlyPress) =>
             (~isPlaying' /\ ended' = "EarlyTap" /\ roundsCompleted' = roundsCompleted)
       /\ (ended = "EarlyTap" /\ ended' = "EarlyTap") =>
             /\ roundsCompleted' <= roundsCompleted
             /\ circleColor' = "green" => circleColor = "green"]_vars

\* C11: a tap on the circle while the phase is Armed, with latency L, adds
\* exactly score(L) to colorScore (80 for L = 200) and cancels the miss timer
\* of the round: of the miss timers armed when the circle turned green, none
\* is pending afterwards.
C11_ScoredTapAddsScoreAndDisarms ==
    [][\A l \in Latencies : (Armed /\ scoredPress(l)) =>
          /\ colorScore' = colorScore + (IF l >= 1000 THEN 0 ELSE (1000 - l) \div 10)
          /\ l = 200 => colorScore' = colorScore + 80
          /\ (\A i \in DOMAIN timers :
                 timers[i].kind = "miss" => MISS_MS - timers[i].rem = greenTime)
             => ~MissPending']_vars

\* A first tap with latency 200 has scored 80 and the display delay runs.
C11_Witness ==
    /\ challengeType = "color" /\ Running /\ colorScore = 80
    /\ bestReactionTime = 200 /\ Delays(timers) = 1 /\ ~MissPending

\* C12: bestReactionTime is the minimum of the latencies recorded in the
\* session, a latency of 0 included, and is null exactly when none has been
\* recorded since start: startGame makes it null, a scored tap with latency L
\* makes it L if it was null and min(best, L) otherwise, and nothing else
\* changes it while the session goes on.
C12_BestIsMinimum ==
    [][/\ startGame => bestReactionTime' = NULL
       /\ \A l \in Latencies : scoredPress(l) =>
              bestReactionTime' = IF bestReactionTime = NULL THEN l
                                  ELSE Min(bestReactionTime, l)
       /\ (isPlaying /\ isPlaying' /\ ~\E l \in Latencies : scoredPress(l))
              => bestReactionTime' = bestReactionTime]_vars

\* A latency of 0 has been recorded and the next circle is green.
C12_Witness ==
    /\ challengeType = "color" /\ Armed /\ bestReactionTime = 0
    /\ roundsCompleted = 1 /\ Delays(timers) = 0

\* C13: when a miss timer fires while the phase is Armed and no tap has
\* answered the green circle, the session ends as missed: the lifecycle leaves
\* Running, and in that step and from then on, until a new session is started,
\* no round is counted or started and no arm timer is armed.
C13_MissEndsSession ==
    [][/\ \A i \in DOMAIN timers :
              (Armed /\ Delays(timers) = 0 /\ ended = "none" /\ missFires(i)) =>
                  /\ ~isPlaying' /\ ended' = "Missed"
                  /\ roundsCompleted' = roundsCompleted
                  /\ Arms(timers') <= Arms(timers)
       /\ (ended = "Missed" /\ ended' = "Missed" /\ Delays(timers) = 0) =>
              /\ ~isPlaying'
              /\ roundsCompleted' <= roundsCompleted
              /\ Arms(timers') <= Arms(timers)
              /\ ~Waiting']_vars

\* The first green circle was not answered: the session has ended as missed
\* without a score.
C13_Witness ==
    /\ challengeType = "color" /\ ended = "Missed" /\ ~isPlaying
    /\ roundsCompleted = 0 /\ colorScore = 0 /\ alerts["colorPlain"] > 0

\* C14: a session whose ten rounds are all scored, without a miss or an early
\* tap, becomes Ended with the reason RoundsCompleted, and roundsCompleted is 10
\* at that transition.
C14_TenRoundsEndWithTen ==
    [][\A i \in DOMAIN timers : (ended = "none" /\ endColorGame(i)) =>
          /\ ~isPlaying' /\ ended' = "RoundsCompleted"
          /\ roundsCompleted' = MAX_COLOR_ROUNDS]_vars

\* The session has ended after its tenth scored round with nine rounds counted.
C14_EndedWithNine ==
    /\ challengeType = "color" /\ mounted /\ ended = "RoundsCompleted"
    /\ ~isPlaying /\ roundsCompleted = MAX_COLOR_ROUNDS - 1 /\ colorScore > 0

\* C15: in every state of a Color session greenTime is non-null if and only
\* if the phase is Armed; in particular it is null while a round is Waiting.
C15_GreenTimeIffArmed ==
    (challengeType = "color" /\ mounted /\ isPlaying) =>
        /\ greenTime # NULL <=> Armed
        /\ Waiting => greenTime = NULL

\* The second round waits with the red circle and greenTime still holds the
\* time of the first round.
C15_WaitingWithGreenTime ==
    /\ Waiting /\ roundsCompleted = 1 /\ ArmPending /\ ~MissPending
    /\ Delays(timers) = 0 /\ inputs = 0 /\ greenTime # NULL

\* C16: in every state of a Color session roundsCompleted is an integer of
\* 0..10, and roundsCompleted = 10 implies that the lifecycle is Ended.
C16_RoundsInRange ==
    challengeType = "color" =>
        /\ roundsCompleted \in 0..MAX_COLOR_ROUNDS
        /\ roundsCompleted = MAX_COLOR_ROUNDS => Ended

\* Nine rounds are counted and the tenth circle has been answered: the
\* end-of-game timeout is pending.
C16_Witness ==
    /\ challengeType = "color" /\ Running /\ roundsCompleted = MAX_COLOR_ROUNDS - 1
    /\ \E i \in DOMAIN timers : timers[i].kind = "end"

\* C17: in Color mode pauseGame leaves no arm and no miss timer pending, and
\* resumeGame always re-enters Waiting (the circle red) with exactly one arm
\* timer pending, a freshly armed one, whatever the phase was at the pause.
C17_PauseCancelsResumeRearms ==
    [][challengeType = "color" =>
          /\ pauseGame => (~ArmPending' /\ ~MissPending')
          /\ resumeGame =>
                 /\ Waiting'
                 /\ Arms(timers') = 1
                 /\ \A i \in DOMAIN timers' :
                        timers'[i].kind = "arm" => timers'[i].ref /\ timers'[i].run = 0]_vars

\* The session is paused and an arm timer is still pending.
C17_PausedWithArmPending ==
    challengeType = "color" /\ mounted /\ Paused /\ ArmPending

\* C18: for every integer latency L >= 0 the score is 0 when L >= 1000 and
\* floor((1000 - L) / 10) otherwise, an integer of 0..100; score(0) = 100,
\* score(200) = 80, score(1000) = 0 and score(1500) = 0.
C18_ScoreFormula ==
    pointsEarned # NULL =>
        /\ pointsEarned = IF reactionTimeMs >= 1000 THEN 0
                          ELSE (1000 - reactionTimeMs) \div 10
        /\ pointsEarned \in 0..100
        /\ reactionTimeMs = 0 => pointsEarned = 100
        /\ reactionTimeMs = 200 => pointsEarned = 80
        /\ reactionTimeMs = 1000 => pointsEarned = 0
        /\ reactionTimeMs = 1500 => pointsEarned = 0

\* The score of the latency 1500 has been computed.
C18_Witness == reactionTimeMs = 1500 /\ pointsEarned = 0

\* C19, as stated: score(950) = 4.
C19_Score950Is4 ==
    (reactionTimeMs = 950 /\ pointsEarned # NULL) => pointsEarned = 4

\* C19, amended: score(950) = 5, which is floor((1000 - 950) / 10).
C19_Score950Is5 ==
    (reactionTimeMs = 950 /\ pointsEarned # NULL) => pointsEarned = 5

\* The score of the latency 950 has been computed.
C19_Witness == reactionTimeMs = 950 /\ pointsEarned = 5

\* C20, as stated: for every latency L with 0 <= L < 1000 the score is strictly
\* positive, an integer of 1..100.
C20_ScorePositiveBelowCap ==
    (pointsEarned # NULL /\ reactionTimeMs < 1000) => pointsEarned \in 1..100

\* C20, amended: for every latency L with 0 <= L < 1000 the score is an integer
\* of 0..100, and it is strictly positive exactly when L <= 990.
C20_ScorePositiveUpTo990 ==
    (pointsEarned # NULL /\ reactionTimeMs < 1000) =>
        /\ pointsEarned \in 0..100
        /\ pointsEarned > 0 <=> reactionTimeMs <= 990

\* The score of the latency 995, below the cap, has been computed: it is 0.
C20_Witness == reactionTimeMs = 995 /\ pointsEarned = 0

\* C21: the score does not grow with the latency: for all latencies a < b,
\* score(a) >= score(b).
C21_ScoreMonotone ==
    pointsEarned # NULL =>
        \A a \in 0..MaxLatency :
            a < reactionTimeMs => calculateReactionScore(a) >= pointsEarned

\* The score of the latency 500 has been computed; the latency 490 scores more.
C21_Witness ==
    /\ reactionTimeMs = 500 /\ pointsEarned = 50
    /\ calculateReactionScore(490) = 51

\* C22, as stated: after startGame, whatever the previous session left
\* behind, the session is Running and the mode's sub-state holds its initial
\* values: in Target mode score = 0, timeLeft = 30 and no target is live; in
\* Color mode roundsCompleted = 0, colorScore = 0, bestReactionTime and
\* greenTime are null and the circle is red.
C22_StartResetsToEmpty ==
    [][startGame =>
          /\ Running'
          /\ IF challengeType = "target"
             THEN score' = 0 /\ timeLeft' = GAME_DURATION /\ targets' = << >>
             ELSE /\ roundsCompleted' = 0 /\ colorScore' = 0
                  /\ bestReactionTime' = NULL /\ greenTime' = NULL
                  /\ circleColor' = "red"]_vars

\* C22, amended: as stated, except that in Target mode the only live target
\* is the first one of the new session, which the spawn effect creates at
\* once, with an id no earlier target had.
C22_StartResets ==
    [][startGame =>
          /\ Running'
          /\ IF challengeType = "target"
             THEN /\ score' = 0 /\ timeLeft' = GAME_DURATION
                  /\ targets' = <<targetIdRef>>
                  /\ targetIdRef \notin Ids(targets) \cup removed
             ELSE /\ roundsCompleted' = 0 /\ colorScore' = 0
                  /\ bestReactionTime' = NULL /\ greenTime' = NULL
                  /\ circleColor' = "red"]_vars

\* A second session has just been started while a timer of the first one is
\* still pending.
C22_Witness ==
    /\ session = 2 /\ Running /\ ended = "none"
    /\ IF challengeType = "target"
       THEN score = 0 /\ timeLeft = GAME_DURATION /\ Len(targets) = 1
       ELSE roundsCompleted = 0 /\ colorScore = 0 /\ circleColor = "red"
    /\ \E i \in DOMAIN timers : timers[i].sess = 1
    /\ \A i \in DOMAIN timers : timers[i].sess = 2 => timers[i].run = 0

\* C23: a tap handled while the lifecycle is not Running (Idle, Paused or
\* Ended, the time between the end and the dismissal of the result dialog
\* included) is a no-op: score, colorScore, targets, roundsCompleted and the
\* lifecycle are unchanged and no timer is armed.
Tap ==
    \/ \E id \in Ids(targets) \cup fading : handleTargetPress(id) \/ latePress(id)
    \/ earlyPress
    \/ \E l \in Latencies : scoredPress(l)

C23_TapWhenNotRunningIsNoOp ==
    [][(~Running /\ Tap) =>
          /\ UNCHANGED <<score, colorScore, targets, roundsCompleted, isPlaying, isPaused>>
          /\ timers' = timers]_vars

\* The tenth round is over and the session has ended; a tap on the circle,
\* still green, has scored and scheduled an end-of-game timeout.
C23_ScoredAfterEnd ==
    /\ challengeType = "color" /\ mounted /\ ~isPlaying
    /\ ended = "RoundsCompleted" /\ inputs = 1
    /\ \E i \in DOMAIN timers : timers[i].kind = "end" /\ timers[i].cap > 0
                                  /\ timers[i].rem = DISPLAY_DELAY_MS

\* C24: for each timer purpose (spawn, countdown, arm, miss) at most one
\* timer is pending at any time, and every pending timer of these purposes is
\* the one its reference slot holds.
Purposes == {"spawn", "countdown", "arm", "miss"}

C24_OneTimerPerPurpose ==
    \A i, j \in DOMAIN timers :
        timers[i].kind \in Purposes =>
            /\ timers[i].ref
            /\ timers[j].kind = timers[i].kind => i = j

\* Two arm timers are pending in a running Color session; waitTimerRef holds
\* the second one only.
C24_TwoArmTimers ==
    /\ challengeType = "color" /\ Running /\ Arms(timers) = 2
    /\ \E i \in DOMAIN timers : timers[i].kind = "arm" /\ ~timers[i].ref

\* C25: while a session is Running no timer armed during an earlier session
\* fires and changes the rounds, the score or the lifecycle of the session.
Fires(i) ==
    \/ countdownTick(i) \/ spawnTick(i) \/ targetExpiry(i)
    \/ armFires(i) \/ missFires(i) \/ nextRound(i) \/ endColorGame(i)

C25_NoTimerOfEarlierSession ==
    [][\A i \in DOMAIN timers :
          (Running /\ timers[i].sess # session /\ Fires(i)) =>
              UNCHANGED <<roundsCompleted, score, colorScore, isPlaying, isPaused>>]_vars

\* The second session is Running and a timer of the first one is pending.
C25_StaleTimerPending ==
    /\ challengeType = "color" /\ session = 2 /\ Running
    /\ \E i \in DOMAIN timers : timers[i].sess = 1 /\ timers[i].kind \in {"next", "end"}

\* C26: in Target mode, when the countdown reaches 0 the score handed to the
\* result reporter is the score of the session at that moment, the hits of
\* the final second included.
C26_FinalScoreReported ==
    [][\A i \in DOMAIN timers :
          (challengeType = "target" /\ timeLeft <= 1 /\ countdownTick(i)) =>
              /\ Len(inflight') = Len(inflight) + 1
              /\ inflight'[Len(inflight')].score = score]_vars

\* The countdown has reached 0; the session's score is 1, from a hit in the
\* final second, and endGame carries the score 0.
C26_StaleScoreCarried ==
    /\ challengeType = "target" /\ timeLeft = 0 /\ score = 1
    /\ ended = "TimeExpired"
    /\ \E k \in DOMAIN inflight : inflight[k] = Await("endGame", 0, session)

\* C27: in Color mode, when the session ends after the tenth scored round, the
\* score handed to the result reporter is floor(colorScore / 10) for the
\* colorScore of all ten rounds, the points of the last tap included.
C27_AllRoundsReported ==
    [][\A i \in DOMAIN timers :
          (ended = "none" /\ colorScore > 0 /\ endColorGame(i)) =>
              /\ Len(inflight') = Len(inflight) + 1
              /\ inflight'[Len(inflight')].score = colorScore \div COLOR_SCORE_XP_DIVISOR]_vars

\* Ten rounds of 80 points are over: colorScore is 800 and endColorGame
\* carries 72, the tenth of the score of nine rounds.
C27_NineRoundsCarried ==
    /\ challengeType = "color" /\ colorScore = 800 /\ ended = "RoundsCompleted"
    /\ \E k \in DOMAIN inflight : inflight[k] = Await("endColorGame", 72, session)

\* C28: with a user signed in, every step that ends the session, whatever the
\* reason (the countdown reaching 0, an early tap, a miss, the last round, the
\* Leave button) and whatever the score, 0 included, starts one call of the Result
\* Reporter that carries the final score (the colour score divided by
\* COLOR_SCORE_XP_DIVISOR, as the reporter receives it).
C28_EveryEndReported ==
    [][(user /\ ended = "none" /\ ended' # "none")
       => /\ Len(inflight') = Len(inflight) + 1
          /\ inflight'[Len(inflight')].score =
                 IF challengeType = "target" THEN score
                 ELSE colorScore \div COLOR_SCORE_XP_DIVISOR]_vars

\* The user left a session through the Leave button and nothing was reported.
C28_AbandonedUnreported ==
    /\ user /\ session = 1 /\ ended = "Left" /\ ~mounted
    /\ inflight = << >> /\ reports = << >>

\* The Result Reporter's remote calls come back: either await of an end-of-game
\* handler returns or throws.
RemoteOutcome ==
    \/ \E k \in DOMAIN inflight, ok \in BOOLEAN : initReturns(k, ok)
    \/ \E k \in DOMAIN inflight, ok \in BOOLEAN : updateReturns(k, ok)

\* C29: the step that ends a session leaves isPlaying false and no timer of the
\* session pending, and the remote call, if any, is issued by that step, not
\* before it; the return or the failure of a remote call changes none of score,
\* colorScore, roundsCompleted, isPlaying and isPaused.
C29_LocalEndBeforeRemoteCall ==
    [][/\ (ended = "none" /\ ended' # "none")
            => /\ ~isPlaying'
               /\ \A i \in DOMAIN timers' : timers'[i].sess # session
               /\ \A k \in DOMAIN inflight : inflight[k].sess # session
       /\ RemoteOutcome
            => UNCHANGED <<score, colorScore, roundsCompleted, isPlaying, isPaused>>]_vars

\* The countdown reached 0, the remote call is in flight, and a timer of the
\* session is still pending.
C29_TimerPendingDuringCall ==
    /\ challengeType = "target" /\ mounted /\ ~isPlaying /\ ended = "TimeExpired"
    /\ \E k \in DOMAIN inflight : inflight[k].sess = session
    /\ \E i \in DOMAIN timers : timers[i].sess = session

\* A remote call of the Result Reporter fails: an await of an end-of-game handler
\* throws and the catch block runs.
RemoteFailure ==
    \/ \E k \in DOMAIN inflight : initReturns(k, FALSE)
    \/ \E k \in DOMAIN inflight : updateReturns(k, FALSE)

C31_StatsArithmetic ==
    [][/\ \A c \in DOMAIN calls :
            updateStatsDoc(c, TRUE) /\ db.userStats.exists
              => LET old == db.userStats
                     new == db'.userStats
                     sc == calls[c].score IN
                 /\ new.totalXP = old.totalXP + sc * 10
                 /\ new.totalXP - old.totalXP = xpGained(sc)
                 /\ new.level = (new.totalXP \div 1000) + 1
                 /\ new.bestScore = (IF sc > old.bestScore THEN sc ELSE old.bestScore)
                 /\ new.challengesCompleted = old.challengesCompleted + 1
                 /\ calls[c].new = new
       /\ \A c \in DOMAIN calls :
            updateUserDoc(c, TRUE) /\ db.users.exists
              => /\ db'.users.totalXP = db.userStats.totalXP
                 /\ db'.users.level = db.userStats.level
                 /\ db'.users.bestScore = db.userStats.bestScore
                 /\ db'.users.challengesCompleted = db.userStats.challengesCompleted
       /\ db.userStats.exists
            => /\ db'.userStats.exists
               /\ db'.userStats.totalXP >= db.userStats.totalXP
               /\ db'.userStats.level >= db.userStats.level
               /\ db'.userStats.bestScore >= db.userStats.bestScore
       /\ db'.userStats.exists
            => db'.userStats.level = (db'.userStats.totalXP \div 1000) + 1]_vars

\* A score of 70 was recorded on top of 900 XP: 1600 XP, level 2.
C31_Witness ==
    /\ prior = StatsDoc(900, 1, 50, 2, 300, 0)
    /\ Len(calls) = 1 /\ calls[1].op = "update" /\ calls[1].pc = "done"
    /\ calls[1].score = 70
    /\ db.userStats.totalXP = 1600 /\ db.userStats.level = 2
    /\ db.userStats.bestScore = 70 /\ db.userStats.challengesCompleted = 3
    /\ db.users.totalXP = 1600 /\ db.users.level = 2

\* C32: a call of updateUserStats that finds a stats record stores
\* weeklyXP = xpGained if the record has no last challenge date or the clock the
\* call read is more than 7 days after it, and previous weeklyXP + xpGained
\* otherwise, exactly 7 days included; the instant read becomes the new date.
C32_WeeklyXP ==
    [][\A c \in DOMAIN calls :
          updateStatsDoc(c, TRUE) /\ db.userStats.exists
            => LET old == db.userStats
                   new == db'.userStats
                   xp == calls[c].score * 10
                   t == new.lastChallengeDate IN
               /\ t # NULL /\ t <= now
               /\ new.weeklyXP =
                     IF old.lastChallengeDate = NULL THEN xp
                     ELSE IF t - old.lastChallengeDate > 7 * 24 * 60 * 60 * 1000 THEN xp
                     ELSE old.weeklyXP + xp
               /\ calls[c].new.weeklyXP = new.weeklyXP]_vars

\* A score of 40 recorded exactly 7 days after the last challenge was added to
\* the 300 weekly XP.
C32_Witness ==
    /\ prior = StatsDoc(900, 1, 50, 2, 300, 0)
    /\ Len(calls) = 1 /\ calls[1].op = "update" /\ calls[1].pc = "done"
    /\ calls[1].score = 40
    /\ db.userStats.lastChallengeDate = 7 * MS_PER_DAY
    /\ db.userStats.weeklyXP = 700

\* C33: whatever the interleaving of initializeUserProfile and updateUserStats
\* calls, no step of initializeUserProfile writes over a document that exists:
\* the stored totalXP, level, bestScore and challengesCompleted are never put
\* back to their initial values.
C33_InitNeverOverwrites ==
    [][\A c \in DOMAIN calls :
          /\ (initSetUser(c, TRUE) /\ db.users.exists) => db'.users = db.users
          /\ (initSetStats(c, TRUE) /\ db.userStats.exists)
                => db'.userStats = db.userStats]_vars

\* Two calls of initializeUserProfile overlapped with the first report of a
\* score; the second call has put the recorded stats back to their initial
\* values.
C33_StatsReset ==
    /\ ~prior.exists
    /\ \E c \in DOMAIN calls : calls[c].op = "update" /\ calls[c].pc \in {"updateUser", "done"}
                               /\ calls[c].score > 0
    /\ \E c \in DOMAIN calls : calls[c].op = "init" /\ calls[c].pc = "done"
    /\ db.userStats = InitialStats

\* C39: when exactly two calls of updateUserStats have been made for a user with
\* a stats record and both have returned, the stored totalXP is the prior totalXP
\* plus the xpGained of both and challengesCompleted has grown by 2.
C39_BothUpdatesCount ==
    (/\ prior.exists /\ Len(calls) = 2
     /\ \A c \in DOMAIN calls : calls[c].op = "update" /\ calls[c].pc = "done")
    => /\ db.userStats.totalXP =
              prior.totalXP + xpGained(calls[1].score) + xpGained(calls[2].score)
       /\ db.userStats.challengesCompleted = prior.challengesCompleted + 2

\* Two overlapping reports of 40 and 70 on top of 900 XP have both returned and
\* the XP of one of them is lost.
C39_LostUpdate ==
    /\ prior = StatsDoc(900, 1, 50, 2, 300, 0) /\ Len(calls) = 2
    /\ \A c \in DOMAIN calls : calls[c].op = "update" /\ calls[c].pc = "done"
    /\ {calls[1].score, calls[2].score} = {40, 70}
    /\ db.userStats.totalXP < 2000
    /\ db.userStats.challengesCompleted = 3

\* C40: whenever a call of initializeUserProfile returns without throwing, both
\* the users document and the userStats document exist, also after an earlier
\* call that threw between its two writes.
C40_InitLeavesBothRecords ==
    [][\A c \in DOMAIN calls :
          (calls[c].op = "init" /\ calls[c].pc # "done" /\ calls'[c].pc = "done")
            => db'.users.exists /\ db'.userStats.exists]_vars

\* One call threw between the two writes, the next call returned, and
\* updateUserStats then failed for want of a stats document.
C40_UpdateFindsNoStats ==
    /\ Len(calls) = 3
    /\ calls[1].op = "init" /\ calls[1].pc = "failed"
    /\ calls[2].op = "init" /\ calls[2].pc = "done"
    /\ calls[3].op = "update" /\ calls[3].pc = "failed" /\ calls[3].new.exists
    /\ db.users.exists /\ ~db.userStats.exists

\* C34: once a tap on the green circle has resolved the round, a further tap
\* during the display delay, before the next round begins, leaves colorScore
\* unchanged and schedules no further next-round or end-of-game timeout.
C34_OneScoredTapPerRound ==
    [][\A l \in Latencies :
          (Running /\ Delays(timers) > 0 /\ scoredPress(l))
            => colorScore' = colorScore /\ Delays(timers') = Delays(timers)]_vars

\* The first round was tapped twice: two next-round timeouts are pending and
\* both taps have scored.
C34_TwoTapsScored ==
    /\ challengeType = "color" /\ Running /\ roundsCompleted = 0
    /\ Delays(timers) = 2 /\ inputs = 1
    /\ colorScore > calculateReactionScore(PromptMs)

\* C35: a miss timer ends a running Color session only while the circle is
\* green and unanswered, and the timer that fires is the one the current green
\* circle armed, 3000 ms of running time ago: a round the user has tapped is
\* never ended by a miss.
C35_MissOnlyIfUntapped ==
    [][\A i \in DOMAIN timers :
          (Running /\ timers[i].sess = session /\ missFires(i))
            => /\ circleColor = "green" /\ greenTime # NULL
               /\ Delays(timers) = 0
               /\ timers[i].ref]_vars

\* The session ended as missed although the last green circle had been tapped:
\* the next-round timeout of that tap is still pending.
C35_MissedAfterTap ==
    /\ challengeType = "color" /\ mounted /\ ended = "Missed" /\ ~isPlaying
    /\ session = 1 /\ colorScore > 0
    /\ \E i \in DOMAIN timers : timers[i].kind \in {"next", "end"} /\ timers[i].sess = 1

\* C36: in Target mode, when the expiry timeout of a target of an earlier
\* session fires after a new session has started, the targets array of the new
\* session and its score are unchanged: the id the callback removes belongs to
\* no target of the new session.
C36_StaleExpiryRemovesNothing ==
    [][\A i \in DOMAIN timers :
          (challengeType = "target" /\ session > 1 /\ timers[i].sess < session
           /\ targetExpiry(i))
            => /\ targets' = targets /\ score' = score
               /\ timers[i].arg \notin Ids(targets)]_vars

\* The second session is running with a target on screen and the expiry timeout
\* of a target of the first session is due.
C36_Witness ==
    /\ challengeType = "target" /\ mounted /\ session = 2 /\ Running
    /\ targets # << >>
    /\ \E i \in DOMAIN timers :
          /\ timers[i].kind = "expiry" /\ timers[i].sess = 1 /\ timers[i].rem = 0
          /\ timers[i].arg < targets[1]

\* C37: in Target mode a target is added to the array only by startGame, by
\* resumeGame or by a firing of the spawn interval, only one at a time, and the
\* session is Running afterwards; each startGame, each resumeGame and each firing
\* of the spawn interval of a running session adds exactly one target; nothing
\* is added while the session is Paused or after it has ended.
C37_SpawnOnlyWhileRunning ==
    [][challengeType = "target" =>
         LET added == Ids(targets') \ Ids(targets) IN
         /\ added # {}
              => /\ Cardinality(added) = 1
                 /\ Running'
                 /\ \/ startGame
                    \/ resumeGame
                    \/ Running /\ \E i \in DOMAIN timers : spawnTick(i)
         /\ (startGame \/ resumeGame) => Cardinality(added) = 1
         /\ \A i \in DOMAIN timers :
               spawnTick(i) => Running /\ timers[i].ref /\ Cardinality(added) = 1]_vars

\* A session was paused and resumed within its first second and the spawn
\* interval has fired once since: three targets have been created in less than
\* two seconds of play, one by the start, one by the resume, one by the interval.
C37_Witness ==
    /\ challengeType = "target" /\ session = 1 /\ Running /\ score = 0
    /\ inputs = 1 /\ targetIdRef = 3 /\ timeLeft = GAME_DURATION - 1
    /\ Len(targets) = 3

====
